---- MODULE Spec2Model ----
(***************************************************************************)
(* ARO Bazzar backend (src/server.js).  The file holds two variants of the *)
(* same REST API: the SQL variant (Express + Sequelize, lines 1-145) and   *)
(* the MongoDB variant (Express + Mongoose, lines 147-293).  A behaviour   *)
(* of this module is one deployment (one variant, fixed at start) and the  *)
(* sequence of HTTP requests it serves.                                    *)
(*                                                                         *)
(* A JSON object is a function from field names to values; an absent key   *)
(* is a name outside its DOMAIN, which is what destructuring reads as      *)
(* undefined.  express.json() hands a request without a body to the        *)
(* handler as the empty object, so "absent" and "{}" are the same input.   *)
(* Optional fields no route reads (description, images, createdAt,         *)
(* orderDate, items, timestamps) are left out of the stored records.       *)
(***************************************************************************)
EXTENDS Naturals, Sequences, FiniteSets, TLC

VARIABLES
    variant,        \* "sql" or "mongo": which server this deployment runs
    users,          \* the User table / collection
    userNextId,     \* next identity the store assigns to a user
    products,       \* the Product table / collection
    productNextId,
    created,        \* history: 201 answers of POST /api/products still stored
    categories,     \* the Category collection (MongoDB variant)
    categoryNextId,
    inflight,       \* POST /api/categories requests between receipt and save
    orders,         \* the Order collection (MongoDB variant)
    orderNextId,
    resp            \* the request served last and the response sent for it

userVars     == <<users, userNextId>>
productVars  == <<products, productNextId, created>>
categoryVars == <<categories, categoryNextId, inflight>>
orderVars    == <<orders, orderNextId>>
vars == <<variant, users, userNextId, products, productNextId, created,
          categories, categoryNextId, inflight, orders, orderNextId, resp>>

---------------------------------------------------------------------------
(* Bounds of the model                                                     *)

MaxUsers      == 2
MaxProducts   == 2
MaxCategories == 2
MaxOrders     == 2

Variants == {"sql", "mongo"}
Clients  == {"c1", "c2"}
EmptyBody == [f \in {} |-> ""]

---------------------------------------------------------------------------
(* Requests and responses                                                  *)

Has(b, f) == f \in DOMAIN b

\* Object.keys(req.body).length === 0
IsEmptyBody(b) == DOMAIN b = {}

\* What res.status(s).json(...) sends, with the request it answers.
\*   records: the JSON objects of the body (array elements, or the one record)
\*   calls:   how many queries the handler's mapper call sent to the store
\*            (a validator rejects the record before any query is sent)
\*   failed:  whether the store threw on a call (unreachable, driver error)
Response(m, e, i, b, s, msg, recs, n, f) ==
    [method |-> m, entity |-> e, id |-> i, body |-> b, status |-> s,
     message |-> msg, records |-> recs, calls |-> n, failed |-> f]

NoResponse == Response("NONE", "none", 0, EmptyBody, 0, "", {}, 0, FALSE)

Ids(S) == {r.id : r \in S}
ById(S, i) == {r \in S : r.id = i}

\* Partial update: only the supplied fields the schema knows are written.
Merge(r, b) == [f \in DOMAIN r |-> IF f # "id" /\ f \in DOMAIN b THEN b[f] ELSE r[f]]

---------------------------------------------------------------------------
(* Credential hasher: bcrypt.genSalt(10), bcrypt.hash, bcrypt.compare      *)

Salts == {"s1", "s2"}

\* bcrypt.hash(plain, salt): the digest string carries version, cost and salt.
Hash(plain, salt) == "$2a$10$" \o salt \o plain

\* bcrypt.compare(s, hash): re-hash s with the salt read from hash, compare.
Compare(s, hash) == \E salt \in Salts : Hash(s, salt) = hash

---------------------------------------------------------------------------
(* Users                                                                   *)

Roles == {"Admin", "Editor"}

\* Sequelize validators of the User model (allowNull: false, isIn); every
\* email of the model is well formed, so isEmail passes.
SqlUserValid(b) ==
    /\ Has(b, "name") /\ Has(b, "email") /\ Has(b, "password")
    /\ (Has(b, "role") => b.role \in Roles)

\* Mongoose validators of UserSchema (required, enum)
MongoUserValid(b) ==
    /\ Has(b, "name") /\ Has(b, "email") /\ Has(b, "password")
    /\ (Has(b, "role") => b.role \in Roles)

\* The row built from a request body, defaults applied, password as given.
UserDoc(i, b) ==
    [id |-> i, name |-> b.name, email |-> b.email, password |-> b.password,
     role |-> IF Has(b, "role") THEN b.role ELSE "Editor"]

\* beforeCreate hook / pre('save') hook: the password is replaced by its hash.
HashPasswordSkipped(u, salt) == u
HashPassword(u, salt) == [u EXCEPT !.password = Hash(u.password, salt)]

\* attributes: { exclude: ['password'] }, select('-password'), and the
\* hand-built payloads { id, name, email, role }.
UserPayloadFull(u) == u
UserPayload(u) == [f \in DOMAIN u \ {"password"} |-> u[f]]

EmailTaken(e, except) == \E u \in users : u.email = e /\ u.id # except

UserBodies ==
    { EmptyBody,
      [name |-> "Ann", email |-> "a@x", password |-> "pw1"],
      [name |-> "Ann", email |-> "b@x", password |-> "pw2", role |-> "Admin"],
      [name |-> "Ann", email |-> "a@x"],
      [name |-> "Ann", email |-> "a@x", password |-> "pw1", role |-> "Root"],
      [name |-> "X"],
      [email |-> "b@x", password |-> "pw1"] }

LoginBodies ==
    { [email |-> "a@x", password |-> "pw1"],
      [email |-> "a@x", password |-> "pw2"],
      [email |-> "b@x", password |-> "pw2"],
      [email |-> "a@x"] }

\* --- SQL variant ---

SqlUserList(fail) ==
    /\ variant = "sql"
    /\ resp' = IF fail
               THEN Response("GET", "users", 0, EmptyBody, 500, "store error", {}, 1, TRUE)
               ELSE Response("GET", "users", 0, EmptyBody, 200, "",
                             {UserPayload(u) : u \in users}, 1, FALSE)
    /\ UNCHANGED <<variant, userVars, productVars, categoryVars, orderVars>>

SqlUserCreate(b, salt, fail) ==
    /\ variant = "sql"
    /\ IF ~SqlUserValid(b)
       THEN /\ resp' = Response("POST", "users", 0, b, 400, "Validation error", {}, 0, FALSE)
            /\ UNCHANGED userVars
       ELSE IF fail
       THEN /\ resp' = Response("POST", "users", 0, b, 400, "store error", {}, 1, TRUE)
            /\ UNCHANGED userVars
       ELSE IF EmailTaken(b.email, 0)
       THEN /\ resp' = Response("POST", "users", 0, b, 400, "Validation error", {}, 1, FALSE)
            /\ UNCHANGED userVars
       ELSE LET u == HashPassword(UserDoc(userNextId, b), salt) IN
            /\ users' = users \cup {u}
            /\ userNextId <= MaxUsers
            /\ userNextId' = userNextId + 1
            /\ resp' = Response("POST", "users", u.id, b, 201, "", {UserPayload(u)}, 1, FALSE)
    /\ UNCHANGED <<variant, productVars, categoryVars, orderVars>>

\* --- shared shape of POST /api/login (the two handlers are the same code) ---

LoginResponse(b, fail) ==
    LET found == {u \in users : u.email = b.email} IN
    IF fail
    THEN Response("POST", "login", 0, b, 500, "store error", {}, 1, TRUE)
    ELSE IF found = {}
    THEN Response("POST", "login", 0, b, 400, "Invalid credentials", {}, 1, FALSE)
    ELSE LET user == CHOOSE u \in found : TRUE IN
         IF ~Has(b, "password")
         THEN \* bcrypt.compare(undefined, hash) rejects: "Illegal arguments"
              Response("POST", "login", 0, b, 500, "Illegal arguments: undefined, string",
                       {}, 1, FALSE)
         ELSE IF ~Compare(b.password, user.password)
         THEN Response("POST", "login", 0, b, 400, "Invalid credentials", {}, 1, FALSE)
         ELSE Response("POST", "login", user.id, b, 200, "Login successful",
                       {UserPayload(user)}, 1, FALSE)

SqlLogin(b, fail) ==
    /\ variant = "sql"
    /\ resp' = LoginResponse(b, fail)
    /\ UNCHANGED <<variant, userVars, productVars, categoryVars, orderVars>>

\* --- MongoDB variant ---

MongoUserList(fail) ==
    /\ variant = "mongo"
    /\ resp' = IF fail
               THEN Response("GET", "users", 0, EmptyBody, 500, "store error", {}, 1, TRUE)
               ELSE Response("GET", "users", 0, EmptyBody, 200, "",
                             {UserPayload(u) : u \in users}, 1, FALSE)
    /\ UNCHANGED <<variant, userVars, productVars, categoryVars, orderVars>>

MongoUserCreate(b, salt, fail) ==
    /\ variant = "mongo"
    /\ IF IsEmptyBody(b)
       THEN /\ resp' = Response("POST", "users", 0, b, 400, "Payload not set or empty.", {}, 0, FALSE)
            /\ UNCHANGED userVars
       ELSE IF ~MongoUserValid(b)
       THEN /\ resp' = Response("POST", "users", 0, b, 400, "User validation failed", {}, 0, FALSE)
            /\ UNCHANGED userVars
       ELSE IF fail
       THEN /\ resp' = Response("POST", "users", 0, b, 400, "store error", {}, 1, TRUE)
            /\ UNCHANGED userVars
       ELSE IF EmailTaken(b.email, 0)
       THEN /\ resp' = Response("POST", "users", 0, b, 400, "E11000 duplicate key", {}, 1, FALSE)
            /\ UNCHANGED userVars
       ELSE LET u == HashPassword(UserDoc(userNextId, b), salt) IN
            /\ users' = users \cup {u}
            /\ userNextId <= MaxUsers
            /\ userNextId' = userNextId + 1
            /\ resp' = Response("POST", "users", u.id, b, 201, "", {UserPayload(u)}, 1, FALSE)
    /\ UNCHANGED <<variant, productVars, categoryVars, orderVars>>

\* const { name, email, role } = req.body: the update document handed to
\* findByIdAndUpdate holds these three keys and no other; a key whose value is
\* undefined is dropped from the update by Mongoose (6 and later).
UserUpdateDocNulls(b) ==
    [f \in {"name", "email", "role"} |-> IF Has(b, f) THEN b[f] ELSE "null"]
UserUpdateDoc(b) == [f \in DOMAIN b \cap {"name", "email", "role"} |-> b[f]]

MongoUserUpdate(i, b, fail) ==
    /\ variant = "mongo"
    /\ IF IsEmptyBody(b)
       THEN /\ resp' = Response("PUT", "users", i, b, 400, "Payload not set or empty.", {}, 0, FALSE)
            /\ UNCHANGED userVars
       ELSE IF fail
       THEN /\ resp' = Response("PUT", "users", i, b, 400, "store error", {}, 1, TRUE)
            /\ UNCHANGED userVars
       ELSE IF ById(users, i) = {}
       THEN \* findByIdAndUpdate resolves to null; res.json(null)
            /\ resp' = Response("PUT", "users", i, b, 200, "", {}, 1, FALSE)
            /\ UNCHANGED userVars
       ELSE LET old == CHOOSE u \in users : u.id = i
                new == Merge(old, UserUpdateDoc(b)) IN
            IF EmailTaken(new.email, i)
            THEN /\ resp' = Response("PUT", "users", i, b, 400, "E11000 duplicate key", {}, 1, FALSE)
                 /\ UNCHANGED userVars
            ELSE /\ users' = (users \ {old}) \cup {new}
                 /\ UNCHANGED userNextId
                 /\ resp' = Response("PUT", "users", i, b, 200, "", {UserPayload(new)}, 1, FALSE)
    /\ UNCHANGED <<variant, productVars, categoryVars, orderVars>>

MongoUserDelete(i, fail) ==
    /\ variant = "mongo"
    /\ IF fail
       THEN /\ resp' = Response("DELETE", "users", i, EmptyBody, 500, "store error", {}, 1, TRUE)
            /\ UNCHANGED userVars
       ELSE /\ users' = users \ ById(users, i)
            /\ UNCHANGED userNextId
            /\ resp' = Response("DELETE", "users", i, EmptyBody, 200, "Deleted successfully.", {}, 1, FALSE)
    /\ UNCHANGED <<variant, productVars, categoryVars, orderVars>>

MongoLogin(b, fail) ==
    /\ variant = "mongo"
    /\ resp' = LoginResponse(b, fail)
    /\ UNCHANGED <<variant, userVars, productVars, categoryVars, orderVars>>

---------------------------------------------------------------------------
(* Routing: a request no app.get/post/put/delete line matches falls        *)
(* through to Express's final handler, which answers 404.                  *)

Methods  == {"GET", "POST", "PUT", "DELETE"}
Entities == {"products", "categories", "orders", "users"}

SqlRoutes ==
    {<<"GET", "products">>, <<"POST", "products">>, <<"PUT", "products">>,
     <<"DELETE", "products">>, <<"GET", "users">>, <<"POST", "users">>}

MongoRoutes ==
    ({<<m, e>> : m \in Methods, e \in Entities}) \ {<<"DELETE", "orders">>}

Routes == IF variant = "sql" THEN SqlRoutes ELSE MongoRoutes

NoRoute(m, e, i) ==
    /\ <<m, e>> \notin Routes
    /\ resp' = Response(m, e, i, EmptyBody, 404, "Cannot " \o m \o " /api/" \o e, {}, 0, FALSE)
    /\ UNCHANGED <<variant, userVars, productVars, categoryVars, orderVars>>

---------------------------------------------------------------------------

UserIds == 1..MaxUsers

UserNext ==
    \/ \E fail \in BOOLEAN : SqlUserList(fail)
    \/ \E b \in UserBodies, salt \in Salts, fail \in BOOLEAN : SqlUserCreate(b, salt, fail)
    \/ \E b \in LoginBodies, fail \in BOOLEAN : SqlLogin(b, fail)
    \/ \E fail \in BOOLEAN : MongoUserList(fail)
    \/ \E b \in UserBodies, salt \in Salts, fail \in BOOLEAN : MongoUserCreate(b, salt, fail)
    \/ \E i \in UserIds, b \in UserBodies, fail \in BOOLEAN : MongoUserUpdate(i, b, fail)
    \/ \E i \in UserIds, fail \in BOOLEAN : MongoUserDelete(i, fail)
    \/ \E b \in LoginBodies, fail \in BOOLEAN : MongoLogin(b, fail)
    \/ \E m \in {"PUT", "DELETE"}, i \in UserIds : NoRoute(m, "users", i)

---------------------------------------------------------------------------

Init ==
    /\ variant \in Variants
    /\ users = {} /\ userNextId = 1
    /\ products = {} /\ productNextId = 1 /\ created = {}
    /\ categories = {} /\ categoryNextId = 1
    /\ inflight = [c \in Clients |->
                     [pc |-> "idle", body |-> EmptyBody, dupAtRecv |-> FALSE, status |-> 0]]
    /\ orders = {} /\ orderNextId = 1
    /\ resp = NoResponse

SpecUsers == Init /\ [][UserNext]_vars

---------------------------------------------------------------------------
(* Claims about users and login                                            *)

Plaintexts == {"pw1", "pw2"}
IsLogin(r) == r.method = "POST" /\ r.entity = "login"

\* The credentials of a login body are right: the email is registered and the
\* password is the one that user was created with.
CredentialsRight(b) ==
    \E u \in users : u.email = b.email /\ Has(b, "password") /\ Compare(b.password, u.password)

\* C1: every login that the store served and whose credentials are not right
\* (unregistered email, or registered email with a password that is not the
\* user's) is answered 400 {"message":"Invalid credentials"}, so the response
\* does not tell whether the email exists.
C1_LoginIndistinguishable ==
    (IsLogin(resp) /\ ~resp.failed /\ ~CredentialsRight(resp.body))
        => (resp.status = 400 /\ resp.message = "Invalid credentials")

\* C2: every stored password is a bcrypt hash of one of the plaintexts and is
\* no plaintext; a user row is created with the hash of the password of the
\* request body, and no later request changes a stored password.
C2_StoredHashed ==
    \A u \in users :
        /\ u.password \notin Plaintexts
        /\ \E p \in Plaintexts, salt \in Salts : u.password = Hash(p, salt)

C2_CreatedHashedStep ==
    \A v \in users' :
        IF v.id \in Ids(users)
        THEN \A u \in users : u.id = v.id => v.password = u.password
        ELSE /\ resp'.method = "POST" /\ resp'.entity = "users" /\ resp'.status = 201
             /\ v.password # resp'.body.password
             /\ \E salt \in Salts : v.password = Hash(resp'.body.password, salt)

\* C2: both parts, in every state and at every step.
C2_PasswordAlwaysHashed == [](C2_StoredHashed) /\ [][C2_CreatedHashedStep]_vars

C2_Witness ==
    /\ resp.method = "PUT" /\ resp.entity = "users" /\ resp.status = 200
    /\ Has(resp.body, "password")
    /\ \E u \in users : u.id = resp.id /\ u.email = resp.body.email
                        /\ u.password \notin Plaintexts

\* C3: no JSON object of any response carries a password key, and no value of
\* one is a plaintext or a stored hash.
C3_NoPasswordInResponse ==
    \A r \in resp.records :
        /\ "password" \notin DOMAIN r
        /\ \A f \in DOMAIN r \ {"id", "price", "stock", "total"} :
              r[f] \notin Plaintexts \cup {u.password : u \in users}

C3_Witness ==
    /\ resp.method = "GET" /\ resp.entity = "users" /\ resp.status = 200
    /\ Cardinality(resp.records) = 2
    /\ Cardinality(users) = 2

\* C4: PUT /api/users/<id> with body {"name":"X"} leaves every user's email,
\* role and password as they were, leaves every other user as it was, adds
\* and removes no user, and the user <id>, when stored, is named X afterwards.
NameOnly == [name |-> "X"]

C4_NameOnlyStep ==
    (resp'.method = "PUT" /\ resp'.entity = "users" /\ resp'.body = NameOnly
     /\ variant = "mongo")
    => /\ Ids(users') = Ids(users)
       /\ \A u \in users : \E v \in users' :
            /\ v.id = u.id /\ v.email = u.email /\ v.role = u.role
            /\ v.password = u.password
            /\ (u.id # resp'.id => v = u)
            /\ (u.id = resp'.id /\ ~resp'.failed => v.name = "X")

---------------------------------------------------------------------------
(* Products                                                                *)

ProductStatuses == {"Active", "Archived", "Out of Stock"}

\* Sequelize Product model: name, price allowNull: false; status isIn.
SqlProductValid(b) ==
    /\ Has(b, "name") /\ Has(b, "price")
    /\ (Has(b, "status") => b.status \in ProductStatuses)

\* Model.update validates the supplied attributes only.
SqlProductUpdateValid(b) == Has(b, "status") => b.status \in ProductStatuses

\* The row Product.create builds: the model has no category column (the
\* association adds CategoryId), so a category key of the body is dropped.
SqlProductDocNoDefault(i, b) ==
    [id |-> i, name |-> b.name, price |-> b.price,
     stock |-> IF Has(b, "stock") THEN b.stock ELSE 1,
     status |-> IF Has(b, "status") THEN b.status ELSE "Active"]
SqlProductDoc(i, b) ==
    [id |-> i, name |-> b.name, price |-> b.price,
     stock |-> IF Has(b, "stock") THEN b.stock ELSE 0,
     status |-> IF Has(b, "status") THEN b.status ELSE "Active"]

\* ProductSchema: name, price, category, stock required; status enum.
MongoProductValid(b) ==
    /\ Has(b, "name") /\ Has(b, "price") /\ Has(b, "category")
    /\ (Has(b, "status") => b.status \in ProductStatuses)

MongoProductDoc(i, b) ==
    [id |-> i, name |-> b.name, price |-> b.price, category |-> b.category,
     stock |-> IF Has(b, "stock") THEN b.stock ELSE 0,
     status |-> IF Has(b, "status") THEN b.status ELSE "Active"]

ProductBodies ==
    { EmptyBody,
      [name |-> "Boot", price |-> 49, category |-> "Shoes"],
      [name |-> "Boot", price |-> 49, category |-> "Shoes", stock |-> 5,
       status |-> "Archived"],
      [name |-> "Boot", price |-> 49, category |-> "Shoes", status |-> "Bogus"],
      [name |-> "Boot"],
      [stock |-> 5],
      [status |-> "Bogus"],
      [status |-> "Out of Stock"] }

\* history kept beside the store: which 201 answers are still stored, the
\* body each was created from, and whether a PUT has rewritten the record.
Remember(i, b) == created \cup {[id |-> i, body |-> b, updated |-> FALSE]}
Touch(i) == {IF c.id = i THEN [c EXCEPT !.updated = TRUE] ELSE c : c \in created}
Forget(i) == {c \in created : c.id # i}

\* --- SQL variant ---

SqlProductList(fail) ==
    /\ variant = "sql"
    /\ resp' = IF fail
               THEN Response("GET", "products", 0, EmptyBody, 500, "store error", {}, 1, TRUE)
               ELSE Response("GET", "products", 0, EmptyBody, 200, "", products, 1, FALSE)
    /\ UNCHANGED <<variant, userVars, productVars, categoryVars, orderVars>>

SqlProductCreate(b, fail) ==
    /\ variant = "sql"
    /\ IF ~SqlProductValid(b)
       THEN /\ resp' = Response("POST", "products", 0, b, 400, "notNull Violation", {}, 0, FALSE)
            /\ UNCHANGED productVars
       ELSE IF fail
       THEN /\ resp' = Response("POST", "products", 0, b, 400, "store error", {}, 1, TRUE)
            /\ UNCHANGED productVars
       ELSE LET p == SqlProductDoc(productNextId, b) IN
            /\ products' = products \cup {p}
            /\ productNextId <= MaxProducts
            /\ productNextId' = productNextId + 1
            /\ created' = Remember(p.id, b)
            /\ resp' = Response("POST", "products", p.id, b, 201, "", {p}, 1, FALSE)
    /\ UNCHANGED <<variant, userVars, categoryVars, orderVars>>

\* No emptiness check: Product.update is called with whatever the body is.
\* With an empty body the UPDATE still goes out (it sets updatedAt).
SqlProductUpdate(i, b, fail) ==
    /\ variant = "sql"
    /\ IF ~SqlProductUpdateValid(b)
       THEN /\ resp' = Response("PUT", "products", i, b, 400, "Validation error", {}, 0, FALSE)
            /\ UNCHANGED productVars
       ELSE IF fail
       THEN /\ resp' = Response("PUT", "products", i, b, 400, "store error", {}, 1, TRUE)
            /\ UNCHANGED productVars
       ELSE /\ products' = {IF p.id = i THEN Merge(p, b) ELSE p : p \in products}
            /\ created' = Touch(i)
            /\ UNCHANGED productNextId
            /\ resp' = Response("PUT", "products", i, b, 200, "Product updated", {}, 1, FALSE)
    /\ UNCHANGED <<variant, userVars, categoryVars, orderVars>>

SqlProductDelete(i, fail) ==
    /\ variant = "sql"
    /\ IF fail
       THEN /\ resp' = Response("DELETE", "products", i, EmptyBody, 500, "store error", {}, 1, TRUE)
            /\ UNCHANGED productVars
       ELSE /\ products' = products \ ById(products, i)
            /\ created' = Forget(i)
            /\ UNCHANGED productNextId
            /\ resp' = Response("DELETE", "products", i, EmptyBody, 200, "Product deleted", {}, 1, FALSE)
    /\ UNCHANGED <<variant, userVars, categoryVars, orderVars>>

\* --- MongoDB variant ---

MongoProductList(fail) ==
    /\ variant = "mongo"
    /\ resp' = IF fail
               THEN Response("GET", "products", 0, EmptyBody, 500, "store error", {}, 1, TRUE)
               ELSE Response("GET", "products", 0, EmptyBody, 200, "", products, 1, FALSE)
    /\ UNCHANGED <<variant, userVars, productVars, categoryVars, orderVars>>

MongoProductCreate(b, fail) ==
    /\ variant = "mongo"
    /\ IF IsEmptyBody(b)
       THEN /\ resp' = Response("POST", "products", 0, b, 400, "Payload not set or empty.", {}, 0, FALSE)
            /\ UNCHANGED productVars
       ELSE IF ~MongoProductValid(b)
       THEN /\ resp' = Response("POST", "products", 0, b, 400, "Product validation failed", {}, 0, FALSE)
            /\ UNCHANGED productVars
       ELSE IF fail
       THEN /\ resp' = Response("POST", "products", 0, b, 400, "store error", {}, 1, TRUE)
            /\ UNCHANGED productVars
       ELSE LET p == MongoProductDoc(productNextId, b) IN
            /\ products' = products \cup {p}
            /\ productNextId <= MaxProducts
            /\ productNextId' = productNextId + 1
            /\ created' = Remember(p.id, b)
            /\ resp' = Response("POST", "products", p.id, b, 201, "", {p}, 1, FALSE)
    /\ UNCHANGED <<variant, userVars, categoryVars, orderVars>>

\* findByIdAndUpdate(id, req.body, { new: true }): update validators are off
\* unless runValidators is given, so the enum of status is not applied.
MongoProductUpdate(i, b, fail) ==
    /\ variant = "mongo"
    /\ IF IsEmptyBody(b)
       THEN /\ resp' = Response("PUT", "products", i, b, 400, "Payload not set or empty.", {}, 0, FALSE)
            /\ UNCHANGED productVars
       ELSE IF fail
       THEN /\ resp' = Response("PUT", "products", i, b, 400, "store error", {}, 1, TRUE)
            /\ UNCHANGED productVars
       ELSE /\ products' = {IF p.id = i THEN Merge(p, b) ELSE p : p \in products}
            /\ created' = Touch(i)
            /\ UNCHANGED productNextId
            /\ resp' = Response("PUT", "products", i, b, 200, "",
                                {Merge(p, b) : p \in ById(products, i)}, 1, FALSE)
    /\ UNCHANGED <<variant, userVars, categoryVars, orderVars>>

MongoProductDelete(i, fail) ==
    /\ variant = "mongo"
    /\ IF fail
       THEN /\ resp' = Response("DELETE", "products", i, EmptyBody, 500, "store error", {}, 1, TRUE)
            /\ UNCHANGED productVars
       ELSE /\ products' = products \ ById(products, i)
            /\ created' = Forget(i)
            /\ UNCHANGED productNextId
            /\ resp' = Response("DELETE", "products", i, EmptyBody, 200, "Deleted successfully.", {}, 1, FALSE)
    /\ UNCHANGED <<variant, userVars, categoryVars, orderVars>>

ProductIds == 1..MaxProducts

ProductNext ==
    \/ \E fail \in BOOLEAN : SqlProductList(fail)
    \/ \E b \in ProductBodies, fail \in BOOLEAN : SqlProductCreate(b, fail)
    \/ \E i \in ProductIds, b \in ProductBodies, fail \in BOOLEAN : SqlProductUpdate(i, b, fail)
    \/ \E i \in ProductIds, fail \in BOOLEAN : SqlProductDelete(i, fail)
    \/ \E fail \in BOOLEAN : MongoProductList(fail)
    \/ \E b \in ProductBodies, fail \in BOOLEAN : MongoProductCreate(b, fail)
    \/ \E i \in ProductIds, b \in ProductBodies, fail \in BOOLEAN : MongoProductUpdate(i, b, fail)
    \/ \E i \in ProductIds, fail \in BOOLEAN : MongoProductDelete(i, fail)

SpecProducts == Init /\ [][ProductNext]_vars

---------------------------------------------------------------------------
(* Claims about products                                                   *)

IsWrite(r) == r.method \in {"POST", "PUT"} /\ r.entity \in Entities

\* C5: a POST or PUT whose body is absent or {} is answered 400 and no query
\* reaches the store.
C5_EmptyBodyRejected ==
    (IsWrite(resp) /\ IsEmptyBody(resp.body)) => (resp.status = 400 /\ resp.calls = 0)

\* C8 as stated: a product answered 201 and not deleted since is in what
\* GET /api/products returns, under the identity of the 201 answer, with
\* stock 0 when its body had no stock and status Active when it had no status.
ListedAsCreated(c) ==
    \E p \in products :
        /\ p.id = c.id
        /\ (~Has(c.body, "stock") => p.stock = 0)
        /\ (~Has(c.body, "status") => p.status = "Active")

\* C8 as stated, of every product answered 201 and not deleted since.
C8_CreatedListedUntilDeleted == \A c \in created : ListedAsCreated(c)

\* C8 amended: the same for a product neither deleted nor updated since its
\* 201 answer; a successful GET /api/products returns exactly the stored
\* products, and a 201 answer carries the record stored under its identity.
C8_CreatedListedUntilTouched ==
    /\ \A c \in created : ~c.updated => ListedAsCreated(c)
    /\ (resp.method = "GET" /\ resp.entity = "products" /\ resp.status = 200)
          => resp.records = products
    /\ (resp.method = "POST" /\ resp.entity = "products" /\ resp.status = 201)
          => (resp.records \subseteq products /\ Ids(resp.records) = {resp.id})

C8_Witness ==
    /\ resp.method = "GET" /\ resp.entity = "products" /\ resp.status = 200
    /\ \E c \in created :
         /\ ~c.updated /\ ~Has(c.body, "stock") /\ ~Has(c.body, "status")
         /\ \E r \in resp.records : r.id = c.id /\ r.stock = 0 /\ r.status = "Active"
    /\ Cardinality(products) = 2

\* C9: a request on which the store threw is answered 500 after one query.
C9_StoreFailureIs500 == resp.failed => (resp.status = 500 /\ resp.calls = 1)

\* C10 (products): every stored product has a status of the enum.
C10_ProductStatusInEnum == \A p \in products : p.status \in ProductStatuses

---------------------------------------------------------------------------
(* Categories (MongoDB variant)                                            *)

\* CategorySchema: name required.
CategoryValid(b) == Has(b, "name")

\* CategorySchema: name unique, the unique index of the collection.  The
\* store checks it inside the insert or update itself.
CategoryDuplicateUnchecked(n, except) == FALSE
CategoryDuplicate(n, except) == \E x \in categories : x.name = n /\ x.id # except

CategoryDoc(i, b) == [id |-> i, name |-> b.name]

CategoryBodies ==
    { EmptyBody, [name |-> "Shoes"], [name |-> "Hats"], [title |-> "Shoes"] }

MongoCategoryList(fail) ==
    /\ variant = "mongo"
    /\ resp' = IF fail
               THEN Response("GET", "categories", 0, EmptyBody, 500, "store error", {}, 1, TRUE)
               ELSE Response("GET", "categories", 0, EmptyBody, 200, "", categories, 1, FALSE)
    /\ UNCHANGED <<variant, userVars, productVars, categoryVars, orderVars>>

\* POST /api/categories up to its await: the emptiness check and
\* new Category(req.body).  Requests of different clients overlap here.
MongoCategoryCreateRecv(c, b) ==
    /\ variant = "mongo"
    /\ inflight[c].pc # "saving"
    /\ IF IsEmptyBody(b)
       THEN /\ resp' = Response("POST", "categories", 0, b, 400, "Payload not set or empty.", {}, 0, FALSE)
            /\ inflight' = [inflight EXCEPT ![c] =
                   [pc |-> "done", body |-> b, dupAtRecv |-> FALSE, status |-> 400]]
       ELSE /\ inflight' = [inflight EXCEPT ![c] =
                   [pc |-> "saving", body |-> b, status |-> 0,
                    dupAtRecv |-> Has(b, "name") /\ CategoryDuplicate(b.name, 0)]]
            /\ UNCHANGED resp
    /\ UNCHANGED <<variant, userVars, productVars, categories, categoryNextId, orderVars>>

\* ... and from the await on: item.save() validates, inserts, and the handler
\* answers 201 or, on any exception, 400.
MongoCategoryCreateSave(c, fail) ==
    /\ variant = "mongo"
    /\ inflight[c].pc = "saving"
    /\ LET b == inflight[c].body
           Done(s) == [inflight EXCEPT ![c].pc = "done", ![c].status = s] IN
       IF ~CategoryValid(b)
       THEN /\ resp' = Response("POST", "categories", 0, b, 400, "Category validation failed", {}, 0, FALSE)
            /\ inflight' = Done(400)
            /\ UNCHANGED <<categories, categoryNextId>>
       ELSE IF fail
       THEN /\ resp' = Response("POST", "categories", 0, b, 400, "store error", {}, 1, TRUE)
            /\ inflight' = Done(400)
            /\ UNCHANGED <<categories, categoryNextId>>
       ELSE IF CategoryDuplicate(b.name, 0)
       THEN /\ resp' = Response("POST", "categories", 0, b, 400, "E11000 duplicate key", {}, 1, FALSE)
            /\ inflight' = Done(400)
            /\ UNCHANGED <<categories, categoryNextId>>
       ELSE LET x == CategoryDoc(categoryNextId, b) IN
            /\ categories' = categories \cup {x}
            /\ categoryNextId <= MaxCategories
            /\ categoryNextId' = categoryNextId + 1
            /\ resp' = Response("POST", "categories", x.id, b, 201, "", {x}, 1, FALSE)
            /\ inflight' = Done(201)
    /\ UNCHANGED <<variant, userVars, productVars, orderVars>>

MongoCategoryUpdate(i, b, fail) ==
    /\ variant = "mongo"
    /\ IF IsEmptyBody(b)
       THEN /\ resp' = Response("PUT", "categories", i, b, 400, "Payload not set or empty.", {}, 0, FALSE)
            /\ UNCHANGED categoryVars
       ELSE IF fail
       THEN /\ resp' = Response("PUT", "categories", i, b, 400, "store error", {}, 1, TRUE)
            /\ UNCHANGED categoryVars
       ELSE IF ById(categories, i) # {} /\ Has(b, "name") /\ CategoryDuplicate(b.name, i)
       THEN /\ resp' = Response("PUT", "categories", i, b, 400, "E11000 duplicate key", {}, 1, FALSE)
            /\ UNCHANGED categoryVars
       ELSE /\ categories' = {IF x.id = i THEN Merge(x, b) ELSE x : x \in categories}
            /\ UNCHANGED <<categoryNextId, inflight>>
            /\ resp' = Response("PUT", "categories", i, b, 200, "",
                                {Merge(x, b) : x \in ById(categories, i)}, 1, FALSE)
    /\ UNCHANGED <<variant, userVars, productVars, orderVars>>

MongoCategoryDelete(i, fail) ==
    /\ variant = "mongo"
    /\ IF fail
       THEN /\ resp' = Response("DELETE", "categories", i, EmptyBody, 500, "store error", {}, 1, TRUE)
            /\ UNCHANGED categoryVars
       ELSE /\ categories' = categories \ ById(categories, i)
            /\ UNCHANGED <<categoryNextId, inflight>>
            /\ resp' = Response("DELETE", "categories", i, EmptyBody, 200, "Deleted successfully.", {}, 1, FALSE)
    /\ UNCHANGED <<variant, userVars, productVars, orderVars>>

CategoryIds == 1..MaxCategories

CategoryNext ==
    \/ \E fail \in BOOLEAN : MongoCategoryList(fail)
    \/ \E c \in Clients, b \in CategoryBodies : MongoCategoryCreateRecv(c, b)
    \/ \E c \in Clients, fail \in BOOLEAN : MongoCategoryCreateSave(c, fail)
    \/ \E i \in CategoryIds, b \in CategoryBodies, fail \in BOOLEAN : MongoCategoryUpdate(i, b, fail)
    \/ \E i \in CategoryIds, fail \in BOOLEAN : MongoCategoryDelete(i, fail)
    \/ \E m \in Methods, i \in CategoryIds : NoRoute(m, "categories", i)

SpecCategories == Init /\ [][CategoryNext]_vars

---------------------------------------------------------------------------
(* Claims about categories                                                 *)

CategoryNames == {x.name : x \in categories}

\* C6: no two stored categories share a name; a POST /api/categories whose
\* name is stored when its save runs is answered 400 and leaves the stored
\* categories as they were; a POST answered 201 found its name not stored and
\* leaves exactly one category of that name.  This covers two POSTs of one
\* name in flight together: whichever saves second meets the stored name.
C6_NamesUnique == \A x, y \in categories : x.name = y.name => x = y

C6_SaveStep ==
    \A c \in Clients :
        (inflight[c].pc = "saving" /\ inflight'[c].pc = "done"
         /\ Has(inflight[c].body, "name"))
        => LET n == inflight[c].body.name IN
           /\ (n \in CategoryNames
                 => (inflight'[c].status = 400 /\ resp'.status = 400
                     /\ categories' = categories))
           /\ (inflight'[c].status = 201
                 => (n \notin CategoryNames
                     /\ Cardinality({x \in categories' : x.name = n}) = 1
                     /\ Cardinality(categories') = Cardinality(categories) + 1))

\* C6: names stay unique and every save step is as described.
C6_DuplicateCategoryRejected == [](C6_NamesUnique) /\ [][C6_SaveStep]_vars

\* Two POSTs of the same name were in flight together (neither saw the name
\* stored when it was received); one got 201, the other 400.
C6_Witness ==
    /\ inflight["c1"].pc = "done" /\ inflight["c2"].pc = "done"
    /\ inflight["c1"].body = [name |-> "Shoes"] /\ inflight["c2"].body = [name |-> "Shoes"]
    /\ ~inflight["c1"].dupAtRecv /\ ~inflight["c2"].dupAtRecv
    /\ inflight["c1"].status = 201 /\ inflight["c2"].status = 400
    /\ resp.message = "E11000 duplicate key"
    /\ Cardinality({x \in categories : x.name = "Shoes"}) = 1

---------------------------------------------------------------------------
(* Orders (MongoDB variant)                                                *)

OrderStatuses == {"Processing", "Shipped", "Delivered", "Cancelled"}

\* OrderSchema: customer, total required; status enum, default Processing.
OrderValid(b) ==
    /\ Has(b, "customer") /\ Has(b, "total")
    /\ (Has(b, "status") => b.status \in OrderStatuses)

OrderDoc(i, b) ==
    [id |-> i, customer |-> b.customer, total |-> b.total,
     status |-> IF Has(b, "status") THEN b.status ELSE "Processing"]

OrderBodies ==
    { EmptyBody,
      [customer |-> "Cy", total |-> 98],
      [customer |-> "Cy", total |-> 98, status |-> "Shipped"],
      [customer |-> "Cy", total |-> 98, status |-> "Lost"],
      [customer |-> "Cy"],
      [status |-> "Delivered"],
      [status |-> "Cancelled"],
      [status |-> "Lost"] }

MongoOrderList(fail) ==
    /\ variant = "mongo"
    /\ resp' = IF fail
               THEN Response("GET", "orders", 0, EmptyBody, 500, "store error", {}, 1, TRUE)
               ELSE Response("GET", "orders", 0, EmptyBody, 200, "", orders, 1, FALSE)
    /\ UNCHANGED <<variant, userVars, productVars, categoryVars, orderVars>>

MongoOrderCreate(b, fail) ==
    /\ variant = "mongo"
    /\ IF IsEmptyBody(b)
       THEN /\ resp' = Response("POST", "orders", 0, b, 400, "Payload not set or empty.", {}, 0, FALSE)
            /\ UNCHANGED orderVars
       ELSE IF ~OrderValid(b)
       THEN /\ resp' = Response("POST", "orders", 0, b, 400, "Order validation failed", {}, 0, FALSE)
            /\ UNCHANGED orderVars
       ELSE IF fail
       THEN /\ resp' = Response("POST", "orders", 0, b, 400, "store error", {}, 1, TRUE)
            /\ UNCHANGED orderVars
       ELSE LET o == OrderDoc(orderNextId, b) IN
            /\ orders' = orders \cup {o}
            /\ orderNextId <= MaxOrders
            /\ orderNextId' = orderNextId + 1
            /\ resp' = Response("POST", "orders", o.id, b, 201, "", {o}, 1, FALSE)
    /\ UNCHANGED <<variant, userVars, productVars, categoryVars>>

MongoOrderUpdate(i, b, fail) ==
    /\ variant = "mongo"
    /\ IF IsEmptyBody(b)
       THEN /\ resp' = Response("PUT", "orders", i, b, 400, "Payload not set or empty.", {}, 0, FALSE)
            /\ UNCHANGED orderVars
       ELSE IF fail
       THEN /\ resp' = Response("PUT", "orders", i, b, 400, "store error", {}, 1, TRUE)
            /\ UNCHANGED orderVars
       ELSE /\ orders' = {IF o.id = i THEN Merge(o, b) ELSE o : o \in orders}
            /\ UNCHANGED orderNextId
            /\ resp' = Response("PUT", "orders", i, b, 200, "",
                                {Merge(o, b) : o \in ById(orders, i)}, 1, FALSE)
    /\ UNCHANGED <<variant, userVars, productVars, categoryVars>>

OrderIds == 1..MaxOrders

OrderNext ==
    \/ \E fail \in BOOLEAN : MongoOrderList(fail)
    \/ \E b \in OrderBodies, fail \in BOOLEAN : MongoOrderCreate(b, fail)
    \/ \E i \in OrderIds, b \in OrderBodies, fail \in BOOLEAN : MongoOrderUpdate(i, b, fail)
    \/ \E m \in Methods, i \in OrderIds : NoRoute(m, "orders", i)

SpecOrders == Init /\ [][OrderNext]_vars

\* The whole service.
Next == UserNext \/ ProductNext \/ CategoryNext \/ OrderNext
Spec == Init /\ [][Next]_vars

---------------------------------------------------------------------------
(* Claims about delete                                                     *)

\* C7 (MongoDB variant): a DELETE /api/<entity>/<id> on which the store did
\* not throw is answered 200, for every entity.
C7_DeleteAlwaysServed ==
    (variant = "mongo" /\ resp.method = "DELETE" /\ resp.entity \in Entities /\ ~resp.failed)
        => resp.status = 200

====
